---- MODULE Spec2Model ----
(***************************************************************************)
(* Model of the ownership / valuation engine of mtg-agent:                 *)
(*   src/models/card_collection.py   CardCollection and its loader         *)
(*   src/tools/collection_tool.py    create_commander_deck                 *)
(*   src/models/commander_deck.py    create_commander_deck_from_scryfall   *)
(*   src/models/standard_deck.py     create_standard_deck_from_scryfall    *)
(*   src/models/scryfall_models.py   ScryfallCard.to_deck_card             *)
(*   src/tools/price_lookup.py       the Scryfall price lookups            *)
(*                                                                         *)
(* Conventions.                                                            *)
(*  - A Python dict is a sequence of <<key, value>> pairs with distinct    *)
(*    keys, in insertion order.                                            *)
(*  - An Optional value is a sequence: << >> is None, <<v>> is v.          *)
(*  - Money is an integer number of cents.                                 *)
(*  - A percentage is the exact quotient num/den, kept as the reduced pair *)
(*    <<num, den>>.  The Python float (a / b) * 100 is modelled by that    *)
(*    exact quotient: its binary rounding error (below 1e-13) is not       *)
(*    modelled.  round(x, 2) rounds the quotient half-to-even, which is    *)
(*    what Python's round returns for a / b * 100 whenever b is not a      *)
(*    multiple of 160 (no total of this model is one).                     *)
(*  - A price of the Scryfall JSON is an Optional string; float() of it is *)
(*    the table Float, in cents, which has no value for a string that is   *)
(*    not a number.                                                        *)
(***************************************************************************)
EXTENDS Integers, Sequences, FiniteSets, TLC

VARIABLES
    cards,          \* CardCollection.cards: the rows, in load order
    deck_list,      \* the caller's requested card list (Dict[str, int])
    op,             \* the operation that ran last
    arg,            \* its argument besides the collection and deck_list
    ret,            \* what it returned (or the exception it raised)
    lookup          \* the price batch in progress (get_market_prices_for_cards)

vars == <<cards, deck_list, op, arg, ret, lookup>>

---------------------------------------------------------------------------
(* Bounds of the model *)

MaxOwned == 3       \* copies in a collection: the sum of its rows' quantities
MaxNeed == 2        \* quantity_needed of a requested card: 0..MaxNeed

(* Program constants *)

DeckSize == 99      \* the fixed total of a commander deck list
TotalDeckCards == 100   \* 99 + commander

---------------------------------------------------------------------------
\* sum(deck_cards.values())
RECURSIVE SumValues(_)
SumValues(d) == IF d = << >> THEN 0 ELSE d[1][2] + SumValues(Tail(d))

---------------------------------------------------------------------------
(* Input domains *)

Names == {"Sol Ring", "sol ring", "Mana Crypt"}

\* str.lower() on the names above.
Lower(s) ==
    CASE s = "Sol Ring" -> "sol ring"
      [] s = "Mana Crypt" -> "mana crypt"
      [] s = "Island" -> "island"
      [] OTHER -> s

\* CardEntry, restricted to the fields the modelled code reads.
Row(n, q, p, c) ==
    [name |-> n, quantity |-> q, purchase_price |-> p,
     purchase_price_currency |-> c]

\* Rows for the ownership computations: names and quantities vary.
OwnRows == {Row(n, q, 250, "USD") : n \in Names, q \in 1..MaxOwned}

\* Rows for the queries of the collection alone: prices and currencies vary too.
Currencies == {"USD", "EUR"}
Prices == {0, 125}
StoreRows ==
    {Row(n, q, p, c) : n \in Names, q \in 1..MaxOwned, p \in Prices, c \in Currencies}

\* Requested card lists over the given keys: distinct keys in any order, each
\* needing 0..MaxNeed copies.
SmallLists(keys) ==
    UNION {
        {d \in [1..k -> keys \X (0..MaxNeed)] :
            \A i, j \in 1..k : i # j => d[i][1] # d[j][1]} : k \in 0..Cardinality(keys)}

\* The lists calculate_deck_ownership and get_cards_by_name are exercised on.
DeckLists == SmallLists(Names)

\* The lists the deck builders are exercised on: the small lists over two keys,
\* and each of them with its last entry raised so that the list totals the
\* commander total, or one less.
BuilderKeys == {"sol ring", "Mana Crypt"}
BuilderDeckLists ==
    SmallLists(BuilderKeys)
    \cup {[d EXCEPT ![Len(d)] =
               <<d[Len(d)][1], t - SumValues(SubSeq(d, 1, Len(d) - 1))>>] :
            d \in SmallLists(BuilderKeys) \ {<< >>}, t \in {DeckSize - 1, DeckSize}}

---------------------------------------------------------------------------
(* Arithmetic helpers *)

Min(a, b) == IF a <= b THEN a ELSE b

RECURSIVE GCD(_, _)
GCD(a, b) == IF b = 0 THEN a ELSE GCD(b, a % b)

\* The quotient n / d (d > 0), reduced.
Frac(n, d) ==
    LET g == GCD(IF n < 0 THEN -n ELSE n, d)
    IN  IF g = 0 THEN <<0, 1>> ELSE <<n \div g, d \div g>>

\* round(x, 2) of Python on x = q[1] / q[2] >= 0: the nearest hundredth, a tie
\* going to the even hundredth.
Round2(q) ==
    LET n == 100 * q[1]
        h == n \div q[2]
        r == n % q[2]
        up == (2 * r > q[2]) \/ (2 * r = q[2] /\ h % 2 = 1)
    IN  Frac(IF up THEN h + 1 ELSE h, 100)

---------------------------------------------------------------------------
(* CardCollection *)

\* (variant: names compared as spelled)
RECURSIVE get_cards_by_name_cs(_, _)
get_cards_by_name_cs(cs, name) ==
    IF cs = << >> THEN << >>
    ELSE IF cs[1].name = name
         THEN <<cs[1]>> \o get_cards_by_name_cs(Tail(cs), name)
         ELSE get_cards_by_name_cs(Tail(cs), name)

\* get_cards_by_name: [card for card in self.cards
\*                     if card.name.lower() == name.lower()]
RECURSIVE get_cards_by_name(_, _)
get_cards_by_name(cs, name) ==
    IF cs = << >> THEN << >>
    ELSE IF Lower(cs[1].name) = Lower(name)
         THEN <<cs[1]>> \o get_cards_by_name(Tail(cs), name)
         ELSE get_cards_by_name(Tail(cs), name)

\* sum(c.quantity for c in rows)
RECURSIVE SumQuantity(_)
SumQuantity(rows) ==
    IF rows = << >> THEN 0 ELSE rows[1].quantity + SumQuantity(Tail(rows))

\* (variant: every row is added to every currency's total)
RECURSIVE total_value_nogroup(_)
total_value_nogroup(cs) ==
    IF cs = << >> THEN [c \in {} |-> 0]
    ELSE LET card == cs[Len(cs)]
             values == total_value_nogroup(SubSeq(cs, 1, Len(cs) - 1))
             currency == card.purchase_price_currency
         IN  [c \in DOMAIN values \cup {currency} |->
                 (IF c \in DOMAIN values THEN values[c] ELSE 0)
                 + card.purchase_price * card.quantity]

\* total_value: the dict currency -> sum of purchase_price * quantity, built
\* row by row; a function whose domain is the set of keys.
RECURSIVE total_value(_)
total_value(cs) ==
    IF cs = << >> THEN [c \in {} |-> 0]
    ELSE LET card == cs[Len(cs)]
             values == total_value(SubSeq(cs, 1, Len(cs) - 1))
             currency == card.purchase_price_currency
             values1 == IF currency \in DOMAIN values THEN values
                        ELSE [c \in DOMAIN values \cup {currency} |->
                                 IF c = currency THEN 0 ELSE values[c]]
         IN  [values1 EXCEPT ![currency] = @ + card.purchase_price * card.quantity]

\* (variant: a later row of a name replaces the earlier quantity)
RECURSIVE owned_cards_overwrite(_)
owned_cards_overwrite(cs) ==
    IF cs = << >> THEN [n \in {} |-> 0]
    ELSE LET card == cs[Len(cs)]
             owned == owned_cards_overwrite(SubSeq(cs, 1, Len(cs) - 1))
         IN  [n \in DOMAIN owned \cup {card.name} |->
                 IF n = card.name THEN card.quantity ELSE owned[n]]

\* owned_cards of calculate_deck_ownership: the dict card.name -> summed
\* quantity, keyed by the name as spelled in the row.
RECURSIVE owned_cards(_)
owned_cards(cs) ==
    IF cs = << >> THEN [n \in {} |-> 0]
    ELSE LET card == cs[Len(cs)]
             owned == owned_cards(SubSeq(cs, 1, Len(cs) - 1))
             owned1 == IF card.name \in DOMAIN owned THEN owned
                       ELSE [n \in DOMAIN owned \cup {card.name} |->
                                IF n = card.name THEN 0 ELSE owned[n]]
         IN  [owned1 EXCEPT ![card.name] = @ + card.quantity]

\* owned_cards.get(card_name, 0)
DictGet(dict, key, default) == IF key \in DOMAIN dict THEN dict[key] ELSE default

\* (variant: no cap at the needed quantity)
Counted_nocap(quantity_owned, quantity_needed) == quantity_owned

\* The contribution of one requested card: min(quantity_owned, quantity_needed).
Counted(quantity_owned, quantity_needed) == Min(quantity_owned, quantity_needed)

\* The loop of calculate_deck_ownership over deck_cards.items().
RECURSIVE total_cards_owned(_, _)
total_cards_owned(owned, d) ==
    IF d = << >> THEN 0
    ELSE Counted(DictGet(owned, d[1][1], 0), d[1][2]) + total_cards_owned(owned, Tail(d))

\* The result of a call: status is "ok" or the exception raised.
NoPct == <<0, 1>>
Ret(status, pct, owned_count, rows, value, deck, built) ==
    [status |-> status, pct |-> pct, owned_count |-> owned_count, rows |-> rows,
     value |-> value, deck |-> deck, built |-> built]
NoRet == Ret("none", NoPct, 0, << >>, << >>, << >>, 0)

\* No price batch is in progress.
NoLookup == [pc |-> "idle"]

\* The percentage calculate_deck_ownership returns: the quotient as computed,
\* with no rounding.
Percentage(q) == q

calculate_deck_ownership(cs, d) ==
    IF d = << >> THEN Ret("ok", Frac(0, 1), 0, << >>, << >>, << >>, 0)
    ELSE LET total_cards_needed == SumValues(d)
             owned == total_cards_owned(owned_cards(cs), d)
         IN  IF total_cards_needed = 0
             THEN Ret("ZeroDivisionError", NoPct, owned, << >>, << >>, << >>, 0)
             ELSE Ret("ok", Percentage(Frac(100 * owned, total_cards_needed)),
                      owned, << >>, << >>, << >>, 0)

---------------------------------------------------------------------------
(* Deck models *)

\* DeckCard, restricted to the fields the projections and totals read.
DeckCard(name, category, quantity, owned, price, price_currency) ==
    [name |-> name, category |-> category, quantity |-> quantity,
     owned |-> owned, price |-> price, price_currency |-> price_currency]

\* sum(card.quantity for card in deck_cards)
RECURSIVE SumCardQuantity(_)
SumCardQuantity(dcs) ==
    IF dcs = << >> THEN 0 ELSE dcs[1].quantity + SumCardQuantity(Tail(dcs))

\* The words the category heuristic of create_commander_deck looks for in
\* card_name.lower(): none of Names holds one; "Island" does.
HasLandWord(lname) == lname \in {"island"}

---------------------------------------------------------------------------
(* create_commander_deck (collection_tool.py) *)

\* (variant: a list short of the total is let through)
ValidDeckStructure_atmost(d) == SumValues(d) <= DeckSize

\* total_cards = sum(deck_list.values()); if total_cards != 99: raise ValueError
ValidDeckStructure(d) == SumValues(d) = DeckSize

\* What a card found in the collection adds to owned_count: quantity when
\* owned_quantity >= quantity, else owned_quantity (partially owned).
OwnedGain(owned_quantity, quantity) ==
    IF owned_quantity >= quantity THEN quantity ELSE owned_quantity

\* One pass of the loop over deck_list.items(): acc holds deck_cards,
\* owned_count and total_price.
CommanderStep(cs, commander_name, acc, item) ==
    LET card_name == item[1]
        quantity == item[2]
    IN  IF Lower(card_name) = Lower(commander_name) THEN acc
        ELSE LET category == IF HasLandWord(Lower(card_name)) THEN "land" ELSE "other"
                 card_in_collection == get_cards_by_name(cs, card_name)
                 found == card_in_collection # << >>
                 owned_quantity == SumQuantity(card_in_collection)
                 owned == found /\ owned_quantity >= quantity
                 gain == IF ~found THEN 0 ELSE OwnedGain(owned_quantity, quantity)
                 price == IF found THEN <<card_in_collection[1].purchase_price>> ELSE << >>
                 currency == IF found THEN card_in_collection[1].purchase_price_currency
                             ELSE "USD"
                 add == IF found /\ card_in_collection[1].purchase_price # 0
                        THEN card_in_collection[1].purchase_price * quantity ELSE 0
             IN  [deck_cards |-> Append(acc.deck_cards,
                                    DeckCard(card_name, category, quantity, owned,
                                             price, currency)),
                  owned_count |-> acc.owned_count + gain,
                  total_price |-> acc.total_price + add]

\* (variant: the commander counts once per owned copy)
CommanderContribution_copies(commander_cards) == SumQuantity(commander_cards)

\* (1 if commander_owned else 0), commander_owned being "some row matches".
CommanderContribution(commander_cards) == IF commander_cards # << >> THEN 1 ELSE 0

RECURSIVE CommanderLoop(_, _, _)
CommanderLoop(cs, commander_name, d) ==
    IF d = << >> THEN [deck_cards |-> << >>, owned_count |-> 0, total_price |-> 0]
    ELSE CommanderStep(cs, commander_name,
                       CommanderLoop(cs, commander_name, SubSeq(d, 1, Len(d) - 1)),
                       d[Len(d)])

create_commander_deck(cs, commander_name, d) ==
    IF ~ValidDeckStructure(d)
    THEN Ret("ValueError", NoPct, 0, << >>, << >>, << >>, 0)
    ELSE LET commander_cards == get_cards_by_name(cs, commander_name)
             commander_owned == commander_cards # << >>
             commander ==
                 DeckCard(commander_name, "commander", 1, commander_owned,
                          IF commander_owned
                          THEN <<commander_cards[1].purchase_price>> ELSE << >>,
                          IF commander_owned
                          THEN commander_cards[1].purchase_price_currency ELSE "USD")
             loop == CommanderLoop(cs, commander_name, d)
             total_price ==
                 loop.total_price
                 + (IF commander_owned /\ commander_cards[1].purchase_price # 0
                    THEN commander_cards[1].purchase_price ELSE 0)
             owned_total == loop.owned_count + CommanderContribution(commander_cards)
             ownership_percentage == Frac(100 * owned_total, TotalDeckCards)
             deck == [commander |-> commander,
                      cards |-> loop.deck_cards,
                      ownership_percentage |-> Round2(ownership_percentage),
                      total_price |-> total_price,
                      price_currency |-> "USD"]
         IN  Ret("ok", deck.ownership_percentage, loop.owned_count, << >>, << >>,
                 <<deck>>, 1 + Len(loop.deck_cards))

---------------------------------------------------------------------------
(* ScryfallCard and the two builders that take Scryfall cards *)

\* The Scryfall cards the requested lists of the builders are made of: the
\* key of a deck_list entry names the card object.  "Sol Ring" and "sol ring"
\* are two card objects (two printings) that carry the same name.
\* type_line is the set of type words it contains.
ScryfallCard(key) ==
    CASE key = "Sol Ring" ->
            [id |-> "a", name |-> "Sol Ring", type_line |-> {"artifact"},
             usd |-> <<150>>, usd_foil |-> << >>, foil |-> FALSE]
      [] key = "sol ring" ->
            [id |-> "b", name |-> "Sol Ring", type_line |-> {"artifact"},
             usd |-> << >>, usd_foil |-> <<400>>, foil |-> TRUE]
      [] OTHER ->
            [id |-> "c", name |-> "Mana Crypt", type_line |-> {"artifact", "creature"},
             usd |-> << >>, usd_foil |-> << >>, foil |-> FALSE]

\* The if / elif chain of to_deck_card over type_line.lower().
CategoryOf(type_line) ==
    IF "creature" \in type_line THEN "creature"
    ELSE IF "artifact" \in type_line THEN "artifact"
    ELSE IF "enchantment" \in type_line THEN "enchantment"
    ELSE IF "planeswalker" \in type_line THEN "planeswalker"
    ELSE IF "instant" \in type_line THEN "instant"
    ELSE IF "sorcery" \in type_line THEN "sorcery"
    ELSE IF "land" \in type_line THEN "land"
    ELSE "other"

to_deck_card(card, quantity, owned) ==
    LET price == IF card.usd # << >> THEN card.usd
                 ELSE IF card.usd_foil # << >> /\ card.foil THEN card.usd_foil
                 ELSE << >>
    IN  DeckCard(card.name, CategoryOf(card.type_line), quantity, owned, price, "USD")

\* price if price else 0, of an Optional price
PriceOr0(price) == IF price # << >> THEN price[1] ELSE 0

\* (variant: every owned copy is counted)
ScryfallOwnedGain_uncapped(owned_quantity, quantity) == owned_quantity

\* What one card adds to owned_count in create_commander_deck_from_scryfall.
ScryfallOwnedGain(owned_quantity, quantity) ==
    IF owned_quantity >= quantity THEN quantity ELSE owned_quantity

\* One pass of the loop of create_commander_deck_from_scryfall.
ScryfallCommanderStep(cs, commander_card, acc, item) ==
    LET card == ScryfallCard(item[1])
        quantity == item[2]
    IN  IF Lower(card.name) = Lower(commander_card.name) THEN acc
        ELSE LET owned_quantity == SumQuantity(get_cards_by_name(cs, card.name))
                 owned == owned_quantity >= quantity
                 deck_card == to_deck_card(card, quantity, owned)
             IN  [deck_cards |-> Append(acc.deck_cards, deck_card),
                  owned_count |-> acc.owned_count
                                  + ScryfallOwnedGain(owned_quantity, quantity),
                  total_price |-> acc.total_price + PriceOr0(deck_card.price) * quantity]

RECURSIVE ScryfallCommanderLoop(_, _, _)
ScryfallCommanderLoop(cs, commander_card, d) ==
    IF d = << >> THEN [deck_cards |-> << >>, owned_count |-> 0, total_price |-> 0]
    ELSE ScryfallCommanderStep(cs, commander_card,
                               ScryfallCommanderLoop(cs, commander_card,
                                                     SubSeq(d, 1, Len(d) - 1)),
                               d[Len(d)])

create_commander_deck_from_scryfall(cs, commander_key, d) ==
    LET commander_card == ScryfallCard(commander_key)
        commander_in_collection == get_cards_by_name(cs, commander_card.name)
        commander_owned == commander_in_collection # << >>
        commander == [to_deck_card(commander_card, 1, commander_owned)
                         EXCEPT !.category = "commander"]
        loop == ScryfallCommanderLoop(cs, commander_card, d)
        total_price == loop.total_price + PriceOr0(commander.price)
        total_deck_cards == SumCardQuantity(loop.deck_cards) + 1
        owned_total == loop.owned_count + CommanderContribution(commander_in_collection)
    IN  IF total_deck_cards = 0
        THEN Ret("ZeroDivisionError", NoPct, loop.owned_count, << >>, << >>, << >>,
                 1 + Len(loop.deck_cards))
        ELSE LET deck == [commander |-> commander,
                          cards |-> loop.deck_cards,
                          ownership_percentage |->
                              Round2(Frac(100 * owned_total, total_deck_cards)),
                          total_price |-> total_price,
                          price_currency |-> "USD"]
             IN  Ret("ok", deck.ownership_percentage, loop.owned_count, << >>, << >>,
                     <<deck>>, 1 + Len(loop.deck_cards))

\* (variant: a card counts as owned as soon as one copy is owned)
RECURSIVE StandardSection_anycopy(_, _)
StandardSection_anycopy(cs, d) ==
    IF d = << >> THEN << >>
    ELSE LET card == ScryfallCard(d[1][1])
             quantity == d[1][2]
             owned_quantity == SumQuantity(get_cards_by_name(cs, card.name))
         IN  <<to_deck_card(card, quantity, owned_quantity >= Min(quantity, 1))>>
             \o StandardSection_anycopy(cs, Tail(d))

\* One section (mainboard or sideboard) of create_standard_deck_from_scryfall.
RECURSIVE StandardSection(_, _)
StandardSection(cs, d) ==
    IF d = << >> THEN << >>
    ELSE LET card == ScryfallCard(d[1][1])
             quantity == d[1][2]
             owned_quantity == SumQuantity(get_cards_by_name(cs, card.name))
         IN  <<to_deck_card(card, quantity, owned_quantity >= quantity)>>
             \o StandardSection(cs, Tail(d))

\* sum(card.quantity for card in section if card.owned)
RECURSIVE SumOwnedQuantity(_)
SumOwnedQuantity(dcs) ==
    IF dcs = << >> THEN 0
    ELSE (IF dcs[1].owned THEN dcs[1].quantity ELSE 0) + SumOwnedQuantity(Tail(dcs))

\* (variant: the quantity of a card is left out of the total)
RECURSIVE SumPrice_unit(_)
SumPrice_unit(dcs) ==
    IF dcs = << >> THEN 0
    ELSE PriceOr0(dcs[1].price) + SumPrice_unit(Tail(dcs))

\* sum((card.price or 0) * card.quantity for card in section)
RECURSIVE SumPrice(_)
SumPrice(dcs) ==
    IF dcs = << >> THEN 0
    ELSE PriceOr0(dcs[1].price) * dcs[1].quantity + SumPrice(Tail(dcs))

create_standard_deck_from_scryfall(cs, mainboard_cards, sideboard_cards) ==
    LET mainboard == StandardSection(cs, mainboard_cards)
        sideboard == StandardSection(cs, sideboard_cards)
        total_cards == SumValues(mainboard_cards) + SumValues(sideboard_cards)
        owned_count == SumOwnedQuantity(mainboard) + SumOwnedQuantity(sideboard)
        ownership_percentage ==
            IF total_cards > 0 THEN Frac(100 * owned_count, total_cards) ELSE Frac(0, 1)
        deck == [mainboard |-> mainboard,
                 sideboard |-> sideboard,
                 ownership_percentage |-> Round2(ownership_percentage),
                 total_price |-> SumPrice(mainboard) + SumPrice(sideboard),
                 price_currency |-> "USD"]
    IN  Ret("ok", deck.ownership_percentage, owned_count, << >>, << >>, <<deck>>,
            Len(mainboard) + Len(sideboard))

---------------------------------------------------------------------------
(* Operations *)

\* load_collection_from_csv: collection = CardCollection()
NewCollection ==
    /\ cards # << >>
    /\ cards' = << >>
    /\ op' = "load"
    /\ arg' = << >>
    /\ ret' = NoRet
    /\ UNCHANGED <<deck_list, lookup>>

\* load_collection_from_csv: collection.cards.append(card_entry)
AppendRow(rows) ==
    /\ \E r \in rows :
           /\ SumQuantity(cards) + r.quantity <= MaxOwned
           /\ cards' = Append(cards, r)
    /\ op' = "load"
    /\ arg' = << >>
    /\ ret' = NoRet
    /\ UNCHANGED <<deck_list, lookup>>

LoadRow == AppendRow(OwnRows)

LoadStoreRow == AppendRow(StoreRows)

\* (variant: the requested list is consumed while it is read)
CalculateDeckOwnership_consuming ==
    /\ op' = "calculate_deck_ownership"
    /\ arg' = << >>
    /\ ret' = calculate_deck_ownership(cards, deck_list)
    /\ deck_list' = << >>
    /\ UNCHANGED <<cards, lookup>>

\* CardCollection.calculate_deck_ownership(deck_cards)
CalculateDeckOwnership ==
    /\ op' = "calculate_deck_ownership"
    /\ arg' = << >>
    /\ ret' = calculate_deck_ownership(cards, deck_list)
    /\ UNCHANGED <<cards, deck_list, lookup>>

GetCardsByName ==
    \E name \in Names :
        /\ op' = "get_cards_by_name"
        /\ arg' = <<name>>
        /\ ret' = Ret("ok", NoPct, 0, get_cards_by_name(cards, name), << >>, << >>, 0)
        /\ UNCHANGED <<cards, deck_list, lookup>>

TotalValue ==
    /\ op' = "total_value"
    /\ arg' = << >>
    /\ ret' = Ret("ok", NoPct, 0, << >>, <<total_value(cards)>>, << >>, 0)
    /\ UNCHANGED <<cards, deck_list, lookup>>

\* The sideboards create_standard_deck_from_scryfall is called with: None
\* (taken as {}) or one card.
Sideboards == {<< >>, <<<<"Sol Ring", 1>>>>}

CreateCommanderDeck ==
    \E commander_name \in Names :
        /\ op' = "create_commander_deck"
        /\ arg' = <<commander_name>>
        /\ ret' = create_commander_deck(cards, commander_name, deck_list)
        /\ UNCHANGED <<cards, deck_list, lookup>>

CreateCommanderDeckFromScryfall ==
    \E commander_key \in Names :
        /\ op' = "create_commander_deck_from_scryfall"
        /\ arg' = <<commander_key>>
        /\ ret' = create_commander_deck_from_scryfall(cards, commander_key, deck_list)
        /\ UNCHANGED <<cards, deck_list, lookup>>

CreateStandardDeckFromScryfall ==
    \E sideboard_cards \in Sideboards :
        /\ op' = "create_standard_deck_from_scryfall"
        /\ arg' = <<sideboard_cards>>
        /\ ret' = create_standard_deck_from_scryfall(cards, deck_list, sideboard_cards)
        /\ UNCHANGED <<cards, deck_list, lookup>>

---------------------------------------------------------------------------
(* Specifications *)

Init ==
    /\ cards = << >>
    /\ deck_list \in DeckLists
    /\ op = "init"
    /\ arg = << >>
    /\ ret = NoRet
    /\ lookup = NoLookup

Next ==
    \/ NewCollection
    \/ LoadRow
    \/ CalculateDeckOwnership
    \/ GetCardsByName

\* Reconciliation by calculate_deck_ownership, and lookups by name.
Spec == Init /\ [][Next]_vars

InitDeck ==
    /\ cards = << >>
    /\ deck_list \in BuilderDeckLists
    /\ op = "init"
    /\ arg = << >>
    /\ ret = NoRet
    /\ lookup = NoLookup

NextDeck ==
    \/ NewCollection
    \/ LoadRow
    \/ CalculateDeckOwnership
    \/ CreateCommanderDeck
    \/ CreateCommanderDeckFromScryfall
    \/ CreateStandardDeckFromScryfall

\* The four ownership computations on the lists of the deck builders.
SpecDeck == InitDeck /\ [][NextDeck]_vars

InitStore ==
    /\ cards = << >>
    /\ deck_list = << >>
    /\ op = "init"
    /\ arg = << >>
    /\ ret = NoRet
    /\ lookup = NoLookup

NextStore ==
    \/ NewCollection
    \/ LoadStoreRow
    \/ GetCardsByName
    \/ TotalValue

\* The queries of the collection alone, over rows of varying price and currency.
SpecStore == InitStore /\ [][NextStore]_vars

---------------------------------------------------------------------------
(* Price lookup (price_lookup.py): one fetched response *)

Opt(S) == {<< >>} \cup {<<x>> : x \in S}

\* float(s) for the price strings used here, in cents.  "abc" is not a
\* number: float raises ValueError on it.
Parsable(s) == s \in {"0.00", "0.30", "1.20", "1.50", "12.50"}
Float(s) ==
    CASE s = "0.00" -> 0
      [] s = "0.30" -> 30
      [] s = "1.20" -> 120
      [] s = "1.50" -> 150
      [] s = "12.50" -> 1250

\* The truth value of an Optional[str]: None and "" are false.
Truthy(x) == x # << >> /\ x[1] # ""

\* float(tix_price) * 1.0
TixFactor == 1

\* The body of a 200 response, restricted to what fetch_scryfall_card reads.
ScryfallData(name, set, collector_number, usd, usd_foil, eur, tix) ==
    [name |-> name, set |-> set, collector_number |-> collector_number,
     prices |-> [usd |-> usd, usd_foil |-> usd_foil, eur |-> eur, tix |-> tix]]

\* What a lookup can come back with: a network error (session.get raises), a
\* status other than 200, a body that is not JSON (response.json() raises),
\* or a 200 response with a JSON body.
Failed(kind) == [kind |-> kind, data |-> << >>]
Json(data) == [kind |-> "json", data |-> data]
FailureKinds == {"error", "status", "malformed"}

FetchResponses ==
    {Failed(k) : k \in FailureKinds}
    \cup {Json(ScryfallData(n, "lea", "1", u, uf, e, t)) :
            n \in {"Sol Ring", "Mana Crypt"},
            u \in Opt({"0.00", "1.50", "abc"}),
            uf \in Opt({"12.50", "abc"}),
            e \in Opt({"1.20"}),
            t \in Opt({"0.30"})}

\* (variant: the non-foil price is preferred even for a foil card)
PriceField_usd_first(prices, foil) ==
    IF Truthy(prices.usd) THEN "usd"
    ELSE IF foil /\ Truthy(prices.usd_foil) THEN "usd_foil"
    ELSE IF Truthy(prices.tix) THEN "tix"
    ELSE "none"

\* The if / elif / else chain that picks the price field.
PriceField(prices, foil) ==
    IF foil /\ Truthy(prices.usd_foil) THEN "usd_foil"
    ELSE IF Truthy(prices.usd) THEN "usd"
    ELSE IF Truthy(prices.tix) THEN "tix"
    ELSE "none"

\* float(x) if x else None
OptFloat(x) == IF Truthy(x) THEN <<Float(x[1])>> ELSE << >>

CardPrice(data, foil, price) ==
    [card_name |-> data.name, set_code |-> data.set,
     collector_number |-> data.collector_number, foil |-> foil, price |-> price,
     usd_price |-> OptFloat(data.prices.usd),
     usd_foil_price |-> OptFloat(data.prices.usd_foil),
     eur_price |-> OptFloat(data.prices.eur),
     tix_price |-> OptFloat(data.prices.tix)]

\* fetch_scryfall_card: the Optional[CardPrice] it returns.  Every exception
\* raised inside the try block (network error, body that is not JSON, float()
\* of a string that is not a number) is caught and gives None.
fetch_scryfall_card(response, foil) ==
    IF response.kind # "json" THEN << >>
    ELSE LET data == response.data
             prices == data.prices
             field == PriceField(prices, foil)
             converted == {f \in {"usd", "usd_foil", "eur", "tix"} : Truthy(prices[f])}
         IN  IF field = "none" THEN << >>
             ELSE IF \E f \in converted : ~Parsable(prices[f][1]) THEN << >>
             ELSE <<CardPrice(data, foil,
                              IF field = "tix" THEN Float(prices.tix[1]) * TixFactor
                              ELSE Float(prices[field][1]))>>

FetchScryfallCard ==
    \E response \in FetchResponses, foil \in BOOLEAN :
        /\ op' = "fetch_scryfall_card"
        /\ arg' = <<response, foil>>
        /\ ret' = Ret("ok", NoPct, 0, << >>, <<fetch_scryfall_card(response, foil)>>,
                      << >>, 0)
        /\ UNCHANGED <<cards, deck_list, lookup>>

NextFetch == FetchScryfallCard

\* fetch_scryfall_card on every response and foil flag.
SpecFetch == InitStore /\ [][NextFetch]_vars

---------------------------------------------------------------------------
(* Price lookup (price_lookup.py): a batch of lookups *)

MaxBatch == 2       \* cards in a price batch

\* CardEntry with the fields get_scryfall_price reads; "" is an empty field.
PriceRow(name, set_code, collector_number, foil, scryfall_id) ==
    [name |-> name, quantity |-> 1, purchase_price |-> 250,
     purchase_price_currency |-> "USD", set_code |-> set_code,
     collector_number |-> collector_number, foil |-> foil,
     scryfall_id |-> scryfall_id]

\* One printing of one card, identified in four ways (with its Scryfall id,
\* by set and number, by name within a set, by name alone), and its foil copy.
PriceRows ==
    {PriceRow("Sol Ring", "lea", "1", FALSE, "a"),
     PriceRow("Sol Ring", "lea", "1", FALSE, ""),
     PriceRow("Sol Ring", "lea", "", FALSE, ""),
     PriceRow("Sol Ring", "", "", FALSE, ""),
     PriceRow("Sol Ring", "lea", "1", TRUE, "a")}

\* What the lookups of a batch can come back with.
BatchResponses ==
    {Failed(k) : k \in FailureKinds}
    \cup {Json(ScryfallData("Sol Ring", "lea", "1", u, << >>, << >>, << >>)) :
            u \in Opt({"1.50", "abc"})}

\* The URL get_scryfall_price asks for: by Scryfall id when the card has one,
\* else by set code and collector number when it has both, else by name
\* (with the set code when it has one).
get_scryfall_price_url(card) ==
    IF card.scryfall_id # "" THEN <<"cards", card.scryfall_id>>
    ELSE IF card.set_code # "" /\ card.collector_number # ""
         THEN <<"cards", card.set_code, card.collector_number>>
    ELSE <<"cards/named", card.name, card.set_code>>

\* get_market_prices_for_cards(cards) is called: prices = []
GetMarketPricesForCards ==
    /\ lookup.pc = "idle"
    /\ lookup' = [pc |-> IF cards = << >> THEN "done" ELSE "request",
                  i |-> 1, requests |-> << >>, prices |-> << >>, answered |-> TRUE]
    /\ op' = "get_market_prices_for_cards"
    /\ arg' = << >>
    /\ ret' = IF cards = << >> THEN Ret("ok", NoPct, 0, << >>, <<<< >>>>, << >>, 0)
              ELSE NoRet
    /\ UNCHANGED <<cards, deck_list>>

\* price = await get_scryfall_price(card), up to session.get(url): the request
\* goes out, and the server will answer it or never will.
IssueRequest ==
    /\ lookup.pc = "request"
    /\ \E answered \in BOOLEAN :
           lookup' = [lookup EXCEPT
                         !.pc = "await",
                         !.requests = Append(@, [i |-> lookup.i,
                                                 url |-> get_scryfall_price_url(cards[lookup.i]),
                                                 kind |-> "pending",
                                                 priced |-> FALSE]),
                         !.answered = answered]
    /\ UNCHANGED <<cards, deck_list, op, arg, ret>>

\* (variant: a failed lookup raises out of the batch)
Respond_raising ==
    /\ lookup.pc = "await"
    /\ lookup.answered
    /\ \E response \in BatchResponses :
           LET price == fetch_scryfall_card(response, cards[lookup.i].foil)
               prices == IF price # << >> THEN Append(lookup.prices, price[1])
                         ELSE lookup.prices
               last == lookup.i = Len(cards) \/ response.kind # "json"
           IN  /\ lookup' = [lookup EXCEPT
                                 !.pc = IF last THEN "done" ELSE "request",
                                 !.i = @ + 1,
                                 !.requests[Len(lookup.requests)].kind = response.kind,
                                 !.requests[Len(lookup.requests)].priced = price # << >>,
                                 !.prices = prices]
               /\ ret' = IF response.kind # "json"
                         THEN Ret("Exception", NoPct, 0, << >>, << >>, << >>, 0)
                         ELSE IF last THEN Ret("ok", NoPct, 0, << >>, <<prices>>, << >>, 0)
                         ELSE ret
    /\ UNCHANGED <<cards, deck_list, op, arg>>

\* The response arrives and get_scryfall_price returns what
\* fetch_scryfall_card makes of it; if price: prices.append(price); the loop
\* goes on to the next card, or the batch returns prices.
Respond ==
    /\ lookup.pc = "await"
    /\ lookup.answered
    /\ \E response \in BatchResponses :
           LET price == fetch_scryfall_card(response, cards[lookup.i].foil)
               prices == IF price # << >> THEN Append(lookup.prices, price[1])
                         ELSE lookup.prices
               last == lookup.i = Len(cards)
           IN  /\ lookup' = [lookup EXCEPT
                                 !.pc = IF last THEN "done" ELSE "request",
                                 !.i = @ + 1,
                                 !.requests[Len(lookup.requests)].kind = response.kind,
                                 !.requests[Len(lookup.requests)].priced = price # << >>,
                                 !.prices = prices]
               /\ ret' = IF last THEN Ret("ok", NoPct, 0, << >>, <<prices>>, << >>, 0)
                         ELSE ret
    /\ UNCHANGED <<cards, deck_list, op, arg>>

\* The cards of the batch are put together.
LoadPriceRow ==
    /\ lookup.pc = "idle"
    /\ Len(cards) < MaxBatch
    /\ \E r \in PriceRows : cards' = Append(cards, r)
    /\ op' = "load"
    /\ arg' = << >>
    /\ ret' = NoRet
    /\ UNCHANGED <<deck_list, lookup>>

NextBatch ==
    \/ LoadPriceRow
    \/ GetMarketPricesForCards
    \/ IssueRequest
    \/ Respond

\* One call of get_market_prices_for_cards, lookup by lookup.
SpecBatch == InitStore /\ [][NextBatch]_vars

\* The same, every step that can be taken being taken eventually; a lookup
\* the server never answers has no step.
SpecBatchFair == SpecBatch /\ WF_vars(NextBatch)

---------------------------------------------------------------------------
(* The projections: by_category and to_table_format *)

\* The members of the CardCategory enum, in declared order.
CardCategory ==
    <<"commander", "creature", "artifact", "enchantment", "planeswalker",
      "instant", "sorcery", "land", "other">>

\* (variant: the categories are listed from the last declared to the first)
by_category_reversed(dcs) ==
    LET n == Len(CardCategory)
        result == [k \in 1..n |->
                      <<CardCategory[n + 1 - k],
                        SelectSeq(dcs, LAMBDA card : card.category = CardCategory[n + 1 - k])>>]
    IN  SelectSeq(result, LAMBDA kv : kv[2] # << >>)

\* by_category over a list of deck cards: result = {category: [] for category
\* in CardCategory}, every card appended to the list of its category, and
\* {k: v for k, v in result.items() if v}.
by_category(dcs) ==
    LET result == [k \in 1..Len(CardCategory) |->
                      <<CardCategory[k],
                        SelectSeq(dcs, LAMBDA card : card.category = CardCategory[k])>>]
    IN  SelectSeq(result, LAMBDA kv : kv[2] # << >>)

\* price_display: f"{card.price} {card.price_currency}" if card.price else
\* "N/A"; the float 0.0 is false.
price_display(card) ==
    IF card.price # << >> /\ card.price[1] # 0
    THEN <<card.price[1], card.price_currency>>
    ELSE <<"N/A">>

\* One row of a table: [name, quantity, owned_display, price_display].
TableRow(card) ==
    [name |-> card.name, quantity |-> card.quantity,
     owned_display |-> IF card.owned THEN "Yes" ELSE "No",
     price_display |-> price_display(card)]

\* (variant: a table shows the first card of its category only)
Tables_first_row(groups) ==
    [k \in 1..Len(groups) |-> <<groups[k][1], <<TableRow(groups[k][2][1])>>>>]

\* result["tables"]: one table per entry of by_category, in its order.
Tables(groups) ==
    [k \in 1..Len(groups) |->
        <<groups[k][1], [j \in 1..Len(groups[k][2]) |-> TableRow(groups[k][2][j])]>>]

\* CommanderDeck.total_cards
CommanderDeck_total_cards(deck) == 1 + SumCardQuantity(deck.cards)

\* StandardDeck.total_cards
StandardDeck_total_cards(deck) ==
    [mainboard |-> SumCardQuantity(deck.mainboard),
     sideboard |-> SumCardQuantity(deck.sideboard),
     total |-> SumCardQuantity(deck.mainboard) + SumCardQuantity(deck.sideboard)]

CommanderDeck_to_table_format(deck) ==
    [ownership_percentage |-> deck.ownership_percentage,
     total_price |-> deck.total_price,
     price_currency |-> deck.price_currency,
     tables |-> Tables(by_category(<<deck.commander>> \o deck.cards))]

StandardDeck_to_table_format(deck) ==
    [ownership_percentage |-> deck.ownership_percentage,
     total_price |-> deck.total_price,
     price_currency |-> deck.price_currency,
     card_count |-> StandardDeck_total_cards(deck),
     tables |-> <<<<"mainboard", Tables(by_category(deck.mainboard))>>,
                  <<"sideboard", Tables(by_category(deck.sideboard))>>>>]

IsCommanderDeck(deck) == "commander" \in DOMAIN deck

\* deck.to_table_format() on the deck that was just built.
ToTableFormat ==
    /\ ret.deck # << >>
    /\ op' = "to_table_format"
    /\ ret' = [ret EXCEPT !.value =
                  <<IF IsCommanderDeck(ret.deck[1])
                    THEN CommanderDeck_to_table_format(ret.deck[1])
                    ELSE StandardDeck_to_table_format(ret.deck[1])>>]
    /\ UNCHANGED <<cards, deck_list, arg, lookup>>

\* Rows with a price and rows priced 0.
ProjectRows ==
    {Row("Sol Ring", q, 125, "USD") : q \in 1..MaxOwned}
    \cup {Row("Mana Crypt", q, 0, "USD") : q \in 1..MaxOwned}

LoadProjectRow == AppendRow(ProjectRows)

NextProject ==
    \/ NewCollection
    \/ LoadProjectRow
    \/ CreateCommanderDeck
    \/ CreateCommanderDeckFromScryfall
    \/ CreateStandardDeckFromScryfall
    \/ ToTableFormat

\* The three deck builders and the projection of the deck they return.
SpecProject == InitDeck /\ [][NextProject]_vars

---------------------------------------------------------------------------
(* Price lookup (price_lookup.py): the market value of a collection *)

\* Rows to be valued: one card, identified by set code and collector number
\* or, with both fields empty, by its name alone.
ValueRow(set_code, collector_number, quantity, purchase_price) ==
    [PriceRow("Sol Ring", set_code, collector_number, FALSE, "")
        EXCEPT !.quantity = quantity, !.purchase_price = purchase_price]

ValueRows ==
    {ValueRow("lea", "1", 1, 250), ValueRow("lea", "1", 2, 0),
     ValueRow("lea", "1", 2, 250), ValueRow("", "", 1, 250)}

\* What the lookup of a row to be valued can come back with.
ValueResponses ==
    {Failed("status"),
     Json(ScryfallData("Sol Ring", "lea", "1", <<"0.00">>, << >>, << >>, << >>)),
     Json(ScryfallData("Sol Ring", "lea", "1", <<"1.50">>, << >>, << >>, << >>)),
     Json(ScryfallData("Sol Ring", "lea", "1", <<"12.50">>, << >>, <<"1.20">>, << >>))}

\* get_market_prices_for_cards as a function of what each lookup comes back
\* with: the prices of the cards whose lookup gave one, in the order of cards.
RECURSIVE get_market_prices_for_cards(_, _)
get_market_prices_for_cards(cs, responses) ==
    IF cs = << >> THEN << >>
    ELSE LET n == Len(cs)
             prices == get_market_prices_for_cards(SubSeq(cs, 1, n - 1),
                                                   SubSeq(responses, 1, n - 1))
             price == fetch_scryfall_card(responses[n], cs[n].foil)
         IN  IF price # << >> THEN Append(prices, price[1]) ELSE prices

\* card_id = f"{name}|{set_code}|{collector_number}|{foil}"
card_id(name, set_code, collector_number, foil) ==
    <<name, set_code, collector_number, foil>>

PriceId(price) ==
    card_id(price.card_name, price.set_code, price.collector_number, price.foil)

RowId(card) == card_id(card.name, card.set_code, card.collector_number, card.foil)

\* card_prices: the dict card_id -> price filled in the order of prices, a
\* later price replacing an earlier one with the same card_id.
card_prices(prices) ==
    [id \in {PriceId(prices[k]) : k \in DOMAIN prices} |->
        prices[CHOOSE k \in DOMAIN prices :
                   /\ PriceId(prices[k]) = id
                   /\ \A j \in DOMAIN prices : PriceId(prices[j]) = id => j <= k]]

\* (variant: what was paid for the card is added to its market price)
MarketAmount_with_purchase(price_info, card) ==
    (price_info.price + card.purchase_price) * card.quantity

\* price_info.price * card.quantity
MarketAmount(price_info, card) == price_info.price * card.quantity

\* The loop of calculate_collection_market_value over cards: the USD and EUR
\* totals.
RECURSIVE MarketTotals(_, _)
MarketTotals(cs, by_id) ==
    IF cs = << >> THEN [c \in {"USD", "EUR"} |-> 0]
    ELSE LET n == Len(cs)
             card == cs[n]
             totals == MarketTotals(SubSeq(cs, 1, n - 1), by_id)
         IN  IF RowId(card) \notin DOMAIN by_id THEN totals
             ELSE LET price_info == by_id[RowId(card)]
                      usd == IF price_info.price # 0
                             THEN MarketAmount(price_info, card) ELSE 0
                      eur == IF price_info.eur_price # << >> /\ price_info.eur_price[1] # 0
                             THEN price_info.eur_price[1] * card.quantity ELSE 0
                  IN  [totals EXCEPT !["USD"] = @ + usd, !["EUR"] = @ + eur]

\* calculate_collection_market_value: {k: v for k, v in total_value.items()
\* if v > 0}
calculate_collection_market_value(cs, prices) ==
    LET totals == MarketTotals(cs, card_prices(prices))
    IN  [c \in {k \in {"USD", "EUR"} : totals[k] > 0} |-> totals[c]]

\* One entry of the result of get_most_valuable_cards_by_market_price,
\* restricted to the fields that identify the row and carry a price.
MostValuableEntry(card, price_info) ==
    [name |-> card.name, set_code |-> card.set_code,
     collector_number |-> card.collector_number, foil |-> card.foil,
     purchase_price |-> card.purchase_price,
     purchase_currency |-> card.purchase_price_currency,
     market_price |-> price_info.price,
     market_price_currency |-> "USD"]

\* The entries of the cards that have a price under their card_id, in the
\* order of cards.
RECURSIVE MostValuableEntries(_, _)
MostValuableEntries(cs, by_id) ==
    IF cs = << >> THEN << >>
    ELSE LET n == Len(cs)
             result == MostValuableEntries(SubSeq(cs, 1, n - 1), by_id)
         IN  IF RowId(cs[n]) \in DOMAIN by_id
             THEN Append(result, MostValuableEntry(cs[n], by_id[RowId(cs[n])]))
             ELSE result

\* sorted(result, key=market_price, reverse=True): descending and stable.
RECURSIVE SortedByMarketPrice(_)
SortedByMarketPrice(result) ==
    IF result = << >> THEN << >>
    ELSE LET n == Len(result)
             x == result[n]
             sorted == SortedByMarketPrice(SubSeq(result, 1, n - 1))
             before == SelectSeq(sorted, LAMBDA y : y.market_price >= x.market_price)
             after == SelectSeq(sorted, LAMBDA y : y.market_price < x.market_price)
         IN  before \o <<x>> \o after

get_most_valuable_cards_by_market_price(cs, prices, limit) ==
    LET sorted_result == SortedByMarketPrice(MostValuableEntries(cs, card_prices(prices)))
    IN  SubSeq(sorted_result, 1, Min(limit, Len(sorted_result)))

\* The values of limit: the default 5, and 1.
Limits == {1, 5}

CalculateCollectionMarketValue ==
    \E responses \in [1..Len(cards) -> ValueResponses] :
        /\ op' = "calculate_collection_market_value"
        /\ arg' = <<responses>>
        /\ ret' = Ret("ok", NoPct, 0, << >>,
                      <<calculate_collection_market_value(
                            cards, get_market_prices_for_cards(cards, responses))>>,
                      << >>, 0)
        /\ UNCHANGED <<cards, deck_list, lookup>>

GetMostValuableCardsByMarketPrice ==
    \E responses \in [1..Len(cards) -> ValueResponses], limit \in Limits :
        /\ op' = "get_most_valuable_cards_by_market_price"
        /\ arg' = <<responses, limit>>
        /\ ret' = Ret("ok", NoPct, 0, << >>,
                      <<get_most_valuable_cards_by_market_price(
                            cards, get_market_prices_for_cards(cards, responses), limit)>>,
                      << >>, 0)
        /\ UNCHANGED <<cards, deck_list, lookup>>

LoadValueRow ==
    /\ Len(cards) < MaxBatch
    /\ \E r \in ValueRows : cards' = Append(cards, r)
    /\ op' = "load"
    /\ arg' = << >>
    /\ ret' = NoRet
    /\ UNCHANGED <<deck_list, lookup>>

InitValue ==
    /\ cards = << >>
    /\ deck_list = <<<<"Sol Ring", DeckSize>>>>
    /\ op = "init"
    /\ arg = << >>
    /\ ret = NoRet
    /\ lookup = NoLookup

NextValue ==
    \/ LoadValueRow
    \/ TotalValue
    \/ CalculateCollectionMarketValue
    \/ GetMostValuableCardsByMarketPrice
    \/ CreateCommanderDeck

\* The totals and reports over purchase prices and over market prices.
SpecValue == InitValue /\ [][NextValue]_vars

---------------------------------------------------------------------------
(* load_collection_from_csv (card_collection.py) *)

MaxCsvRows == 2     \* data rows in a CSV file

\* int(s): raises ValueError on text that is not an integer.
IsInt(s) == s \in {"-1", "0", "2"}
IntOf(s) ==
    CASE s = "-1" -> 0 - 1
      [] s = "0" -> 0
      [] s = "2" -> 2

\* Decimal(s), in cents.
DecimalOf(s) ==
    CASE s = "0" -> 0
      [] s = "-2.50" -> 0 - 250
      [] s = "2.50" -> 250

\* One row of csv.DictReader, restricted to the columns the model keeps.
CsvRow(name, quantity, purchase_price, currency) ==
    [Name |-> name, Quantity |-> quantity, Purchase_price |-> purchase_price,
     Purchase_price_currency |-> currency]

\* Rows as they stand in a file: well-formed ones, one without a price, and
\* ones with a quantity below 1, a negative price, no currency, or a quantity
\* that is not a number.
CsvRows ==
    {CsvRow("Sol Ring", "2", "2.50", "USD"),
     CsvRow("Sol Ring", "2", "", "USD"),
     CsvRow("Sol Ring", "2", "2.50", "EUR"),
     CsvRow("Sol Ring", "0", "2.50", "USD"),
     CsvRow("Sol Ring", "-1", "2.50", "USD"),
     CsvRow("Sol Ring", "2", "-2.50", "USD"),
     CsvRow("Sol Ring", "2", "2.50", ""),
     CsvRow("Sol Ring", "-1", "-2.50", ""),
     CsvRow("Sol Ring", "0", "", ""),
     CsvRow("Sol Ring", "x", "2.50", "USD")}

CsvFiles == UNION {[1..n -> CsvRows] : n \in 0..MaxCsvRows}

\* The CardEntry built from one row: Decimal(row['Purchase price'] or '0'),
\* int(row['Quantity']), the currency text as it is.
CardEntryOf(row) ==
    Row(row.Name, IntOf(row.Quantity),
        DecimalOf(IF row.Purchase_price = "" THEN "0" ELSE row.Purchase_price),
        row.Purchase_price_currency)

\* load_collection_from_csv: a fresh CardCollection to which the CardEntry of
\* every row is appended; the only failure is the ValueError of int().
load_collection_from_csv(rows) ==
    IF \E k \in DOMAIN rows : ~IsInt(rows[k].Quantity)
    THEN Ret("ValueError", NoPct, 0, << >>, << >>, << >>, 0)
    ELSE Ret("ok", NoPct, 0, [k \in DOMAIN rows |-> CardEntryOf(rows[k])],
             << >>, << >>, 0)

\* The collection in use becomes the loaded one; a load that raises leaves
\* none.
LoadCollectionFromCsv ==
    \E rows \in CsvFiles :
        /\ cards = << >>
        /\ op' = "load_collection_from_csv"
        /\ arg' = <<rows>>
        /\ ret' = load_collection_from_csv(rows)
        /\ cards' = ret'.rows
        /\ UNCHANGED <<deck_list, lookup>>

NextLoad ==
    \/ LoadCollectionFromCsv
    \/ NewCollection

\* Loading CSV files, valid and invalid.
SpecLoad == InitStore /\ [][NextLoad]_vars

---------------------------------------------------------------------------
(* A deck that is kept while the collection file changes *)

\* load_collection reads the file anew on every call: the collection after a
\* row was added to the file.  The deck built before is still held.
ReloadWithRowAdded ==
    /\ \E r \in ProjectRows :
           /\ SumQuantity(cards) + r.quantity <= MaxOwned
           /\ cards' = Append(cards, r)
    /\ op' = "reload"
    /\ UNCHANGED <<deck_list, arg, ret, lookup>>

\* The collection after a row was removed from the file.
ReloadWithRowRemoved ==
    /\ \E k \in 1..Len(cards) :
           cards' = SubSeq(cards, 1, k - 1) \o SubSeq(cards, k + 1, Len(cards))
    /\ op' = "reload"
    /\ UNCHANGED <<deck_list, arg, ret, lookup>>

\* Lists of 99 cards, without and with the commander's name.
KeptDeckLists ==
    {<<<<"Mana Crypt", DeckSize>>>>,
     <<<<"sol ring", 1>>, <<"Mana Crypt", DeckSize - 1>>>>}

InitKept ==
    /\ cards = << >>
    /\ deck_list \in KeptDeckLists
    /\ op = "init"
    /\ arg = << >>
    /\ ret = NoRet
    /\ lookup = NoLookup

NextKept ==
    \/ ReloadWithRowAdded
    \/ ReloadWithRowRemoved
    \/ CreateCommanderDeck
    \/ ToTableFormat

\* A commander deck built once and projected while the collection changes.
SpecKept == InitKept /\ [][NextKept]_vars

---------------------------------------------------------------------------
(* create_commander_deck over a collection priced in two currencies *)

InitPriced ==
    /\ cards = << >>
    /\ deck_list \in KeptDeckLists
    /\ op = "init"
    /\ arg = << >>
    /\ ret = NoRet
    /\ lookup = NoLookup

NextPriced ==
    \/ NewCollection
    \/ LoadStoreRow
    \/ CreateCommanderDeck

\* Commander decks built from rows bought in USD and in EUR.
SpecPriced == InitPriced /\ [][NextPriced]_vars

---------------------------------------------------------------------------
(* Projections of decks that hold several cards of one category *)

\* Lists with two spellings (for Scryfall: two printings) of one card.
TableDeckLists ==
    {<<<<"Sol Ring", 1>>, <<"sol ring", DeckSize - 1>>>>,
     <<<<"Sol Ring", 1>>, <<"sol ring", 1>>, <<"Mana Crypt", DeckSize - 2>>>>,
     <<<<"Mana Crypt", 2>>, <<"Sol Ring", 1>>, <<"sol ring", 1>>>>}

InitTables ==
    /\ cards = << >>
    /\ deck_list \in TableDeckLists
    /\ op = "init"
    /\ arg = << >>
    /\ ret = NoRet
    /\ lookup = NoLookup

\* The builders and the projection, on the lists above.
SpecTables == InitTables /\ [][NextProject]_vars

---------------------------------------------------------------------------
(* Vocabulary of the properties *)

OwnershipOps ==
    {"calculate_deck_ownership", "create_commander_deck",
     "create_commander_deck_from_scryfall", "create_standard_deck_from_scryfall"}

\* Sum of the quantities of the rows of cs at the positions I.
RECURSIVE SumQtyAt(_, _)
SumQtyAt(cs, I) ==
    IF I = {} THEN 0
    ELSE LET i == CHOOSE x \in I : TRUE
         IN  cs[i].quantity + SumQtyAt(cs, I \ {i})

\* quantity_owned of a requested name: over the rows that carry that name.
QuantityOwned(cs, name) == SumQtyAt(cs, {i \in 1..Len(cs) : cs[i].name = name})

\* quantity_owned when names are matched ignoring letter case.
QuantityOwnedAnyCase(cs, name) ==
    SumQtyAt(cs, {i \in 1..Len(cs) : Lower(cs[i].name) = Lower(name)})

\* Sum over the entries K of list d of min(quantity_owned, quantity_needed).
RECURSIVE SumCounted(_, _, _)
SumCounted(cs, d, K) ==
    IF K = {} THEN 0
    ELSE LET k == CHOOSE x \in K : TRUE
         IN  Min(QuantityOwned(cs, d[k][1]), d[k][2]) + SumCounted(cs, d, K \ {k})

RECURSIVE SumNeeded(_, _)
SumNeeded(d, K) ==
    IF K = {} THEN 0
    ELSE LET k == CHOOSE x \in K : TRUE
         IN  d[k][2] + SumNeeded(d, K \ {k})

AllNeedsPositive(d) == d # << >> /\ \A k \in 1..Len(d) : d[k][2] > 0

InRange(q) == 0 <= q[1] /\ q[1] <= 100 * q[2]

\* q has at most two decimal places.
TwoPlaces(q) == (100 * q[1]) % q[2] = 0

---------------------------------------------------------------------------
(* C1..C10 *)

\* C1: for a non-empty deck list whose needed quantities are all positive,
\* calculate_deck_ownership returns 100 * (sum of min(quantity_owned,
\* quantity_needed)) / (sum of quantity_needed), quantity_owned being the summed
\* quantity of the rows carrying the requested name (0 when there is none).
C1_OwnershipFormula ==
    (op = "calculate_deck_ownership" /\ AllNeedsPositive(deck_list)) =>
        /\ ret.status = "ok"
        /\ ret.pct = Frac(100 * SumCounted(cards, deck_list, DOMAIN deck_list),
                          SumNeeded(deck_list, DOMAIN deck_list))

\* Scenario A: one row 'Sol Ring' x2 against {'Sol Ring': 1, 'Mana Crypt': 1}
\* gives 50.
C1_Witness ==
    /\ op = "calculate_deck_ownership"
    /\ cards = <<Row("Sol Ring", 2, 250, "USD")>>
    /\ deck_list = <<<<"Sol Ring", 1>>, <<"Mana Crypt", 1>>>>
    /\ ret.status = "ok"
    /\ ret.pct = <<50, 1>>

\* C2: every percentage an ownership computation produces lies in [0, 100].
C2_PercentageInRange ==
    (op \in OwnershipOps /\ ret.status = "ok") => InRange(ret.pct)

\* A commander deck built from Scryfall cards whose only placed card is owned
\* in more copies than needed, the commander not being owned: 50 percent.
C2_Witness ==
    /\ op = "create_commander_deck_from_scryfall"
    /\ ret.status = "ok"
    /\ Len(ret.deck[1].cards) = 1
    /\ ret.deck[1].cards[1].quantity = 1
    /\ QuantityOwnedAnyCase(cards, ret.deck[1].cards[1].name) > 1
    /\ ~ret.deck[1].commander.owned
    /\ ret.pct = <<50, 1>>

\* C3: whenever the denominator is 0 (empty list, or every quantity_needed 0)
\* calculate_deck_ownership returns 0.0 and raises nothing.
C3_ZeroDenominatorGivesZero ==
    (op = "calculate_deck_ownership" /\ SumNeeded(deck_list, DOMAIN deck_list) = 0) =>
        (ret.status = "ok" /\ ret.pct = <<0, 1>>)

\* C4 (capping law): when every requested card (a non-empty list, each needing
\* at least one copy) is owned in more copies than needed, each contributes
\* exactly its quantity_needed and calculate_deck_ownership returns exactly
\* 100; likewise every card create_commander_deck places that is owned in more
\* copies than needed adds exactly its quantity to owned_count; and appending
\* a row of a requested card that is already fully owned never changes what
\* calculate_deck_ownership returns.
OverOwned(cs, d) ==
    \A k \in 1..Len(d) : QuantityOwned(cs, d[k][1]) > d[k][2]

\* The entries of d that create_commander_deck places (all but the commander).
Placed(d, commander_name) ==
    {k \in 1..Len(d) : Lower(d[k][1]) # Lower(commander_name)}

C4_CappedAtNeeded ==
    /\ (op = "calculate_deck_ownership" /\ AllNeedsPositive(deck_list)
            /\ OverOwned(cards, deck_list)) =>
           /\ ret.status = "ok"
           /\ ret.owned_count = SumNeeded(deck_list, DOMAIN deck_list)
           /\ ret.pct = <<100, 1>>
    /\ (op = "create_commander_deck" /\ ret.status = "ok"
            /\ \A k \in Placed(deck_list, arg[1]) :
                   QuantityOwnedAnyCase(cards, deck_list[k][1]) > deck_list[k][2]) =>
           ret.owned_count = SumNeeded(deck_list, Placed(deck_list, arg[1]))

C4_MoreCopiesChangeNothing ==
    \A r \in OwnRows :
        (/\ cards' = Append(cards, r)
         /\ \E k \in 1..Len(deck_list) :
                /\ deck_list[k][1] = r.name
                /\ QuantityOwned(cards, r.name) >= deck_list[k][2]) =>
            calculate_deck_ownership(cards', deck_list)
                = calculate_deck_ownership(cards, deck_list)

C4_CappingLaw == [](C4_CappedAtNeeded) /\ [][C4_MoreCopiesChangeNothing]_vars

\* A requested card needing 2 copies, 3 being owned in two rows: 100.
C4_Witness ==
    /\ op = "calculate_deck_ownership"
    /\ deck_list = <<<<"sol ring", 2>>>>
    /\ Len(cards) = 2
    /\ QuantityOwned(cards, "sol ring") = 3
    /\ ret.owned_count = 2
    /\ ret.pct = <<100, 1>>

\* C5: calculate_deck_ownership returns the same percentage when the letter
\* case of a requested name is changed.
SameIgnoringCase(d1, d2) ==
    /\ Len(d1) = Len(d2)
    /\ \A k \in 1..Len(d1) :
           Lower(d1[k][1]) = Lower(d2[k][1]) /\ d1[k][2] = d2[k][2]

C5_CaseInsensitiveOwnership ==
    op = "calculate_deck_ownership" =>
        \A d \in DeckLists :
            SameIgnoringCase(d, deck_list) => calculate_deck_ownership(cards, d) = ret

\* C8: every ownership percentage returned is rounded to 2 decimal places,
\* half-to-even: it has at most 2 decimal places, and calculate_deck_ownership
\* returns the rounding of 100 * owned / needed.
C8_RoundedHalfEven ==
    (op \in OwnershipOps /\ ret.status = "ok") =>
        /\ TwoPlaces(ret.pct)
        /\ (op = "calculate_deck_ownership" /\ deck_list # << >>) =>
               ret.pct = Round2(Frac(100 * ret.owned_count,
                                     SumNeeded(deck_list, DOMAIN deck_list)))

\* C9: calculate_deck_ownership and get_cards_by_name leave the rows and the
\* requested list as they were, and the same call made again returns the same.
C9_PureStep ==
    op' \in {"calculate_deck_ownership", "get_cards_by_name"} =>
        /\ cards' = cards
        /\ deck_list' = deck_list
        /\ (op = op' /\ arg = arg') => ret' = ret

C10_Rejected ==
    (op = "create_commander_deck" /\ SumNeeded(deck_list, DOMAIN deck_list) # DeckSize) =>
        /\ ret.status = "ValueError"
        /\ ret.deck = << >>
        /\ ret.built = 0

C10_CollectionKept == (op' = "create_commander_deck") => cards' = cards

C10_InvalidDeckRejected == [](C10_Rejected) /\ [][C10_CollectionKept]_vars

\* A list totalling 98 is rejected.
C10_Witness ==
    /\ op = "create_commander_deck"
    /\ SumNeeded(deck_list, DOMAIN deck_list) = DeckSize - 1
    /\ cards # << >>
    /\ ret.status = "ValueError"

---------------------------------------------------------------------------
(* C6, C7: the queries of the collection alone, under SpecStore *)

\* The k-th smallest position of the set M of positions.
Kth(M, k) == CHOOSE i \in M : Cardinality({j \in M : j <= i}) = k

MatchingPositions(cs, name) == {i \in 1..Len(cs) : Lower(cs[i].name) = Lower(name)}

\* C6: get_cards_by_name(name) returns exactly the rows whose name equals the
\* argument ignoring letter case, in collection order (none when none match),
\* so their quantities sum to the quantity owned under that name.
C6_ExactlyTheMatchingRows ==
    op = "get_cards_by_name" =>
        LET M == MatchingPositions(cards, arg[1])
        IN  /\ Len(ret.rows) = Cardinality(M)
            /\ \A k \in 1..Len(ret.rows) : ret.rows[k] = cards[Kth(M, k)]
            /\ SumQuantity(ret.rows) = SumQtyAt(cards, M)

\* Scenario E: two rows of one card, spelled 'Sol Ring', with different
\* quantities, are both returned for 'sol ring' and their quantities add up.
C6_Witness ==
    /\ op = "get_cards_by_name"
    /\ arg = <<"sol ring">>
    /\ Len(cards) = 2
    /\ cards[1].name = "Sol Ring" /\ cards[2].name = "Sol Ring"
    /\ cards[1].quantity = 1 /\ cards[2].quantity = 2
    /\ ret.rows = cards
    /\ SumQuantity(ret.rows) = 3

\* Sum of purchase_price * quantity of the rows of cs at the positions I.
RECURSIVE SumValueAt(_, _)
SumValueAt(cs, I) ==
    IF I = {} THEN 0
    ELSE LET i == CHOOSE x \in I : TRUE
         IN  cs[i].purchase_price * cs[i].quantity + SumValueAt(cs, I \ {i})

\* C7: total_value maps exactly the currencies present in the rows (nothing
\* for an empty collection), each to the sum of purchase_price * quantity over
\* the rows in that currency; a row in another currency never changes the
\* total of a currency.
C7_TotalPerCurrency ==
    op = "total_value" =>
        LET values == ret.value[1]
        IN  /\ DOMAIN values = {cards[i].purchase_price_currency : i \in 1..Len(cards)}
            /\ \A c \in DOMAIN values :
                   values[c] = SumValueAt(cards,
                       {i \in 1..Len(cards) : cards[i].purchase_price_currency = c})

C7_OtherCurrencyKeepsTotal ==
    \A r \in StoreRows :
        cards' = Append(cards, r) =>
            \A c \in DOMAIN total_value(cards) :
                c # r.purchase_price_currency =>
                    total_value(cards')[c] = total_value(cards)[c]

C7_TotalValue == [](C7_TotalPerCurrency) /\ [][C7_OtherCurrencyKeepsTotal]_vars

\* A collection with a priced row in each of two currencies.
C7_Witness ==
    /\ op = "total_value"
    /\ Len(cards) = 2
    /\ cards[1].purchase_price_currency = "USD"
    /\ cards[2].purchase_price_currency = "EUR"
    /\ cards[1].purchase_price = 125 /\ cards[1].quantity = 2
    /\ cards[2].purchase_price = 125 /\ cards[2].quantity = 1
    /\ ret.value[1]["USD"] = 250
    /\ ret.value[1]["EUR"] = 125

---------------------------------------------------------------------------
(* C11..C20 *)

\* C11: in a commander deck the commander slot adds exactly 1 to the
\* denominator of the ownership percentage (the 99 cards of the list plus 1
\* in create_commander_deck, the placed cards plus 1 in
\* create_commander_deck_from_scryfall) and adds 1 to the numerator exactly
\* when some collection row matches the commander name, however many copies
\* are owned; the commander card has quantity 1.
CommanderOwned(cs, name) == IF MatchingPositions(cs, name) # {} THEN 1 ELSE 0

C11_CommanderSlot ==
    /\ (op = "create_commander_deck" /\ ret.status = "ok") =>
           /\ ret.pct = Round2(Frac(100 * (ret.owned_count + CommanderOwned(cards, arg[1])),
                                    SumNeeded(deck_list, DOMAIN deck_list) + 1))
           /\ ret.deck[1].commander.quantity = 1
           /\ ret.deck[1].commander.owned = (CommanderOwned(cards, arg[1]) = 1)
    /\ (op = "create_commander_deck_from_scryfall" /\ ret.status = "ok") =>
           /\ ret.pct = Round2(Frac(100 * (ret.owned_count
                                           + CommanderOwned(cards, ScryfallCard(arg[1]).name)),
                                    SumCardQuantity(ret.deck[1].cards) + 1))
           /\ ret.deck[1].commander.quantity = 1
           /\ ret.deck[1].commander.owned
                  = (CommanderOwned(cards, ScryfallCard(arg[1]).name) = 1)

\* The commander is owned in three copies, spelled in another letter case, and
\* no other card of the deck is owned: 1 of 100.
C11_Witness ==
    /\ op = "create_commander_deck"
    /\ ret.status = "ok"
    /\ arg = <<"Sol Ring">>
    /\ QuantityOwned(cards, "sol ring") = 3
    /\ SumCardQuantity(ret.deck[1].cards) = DeckSize
    /\ ret.owned_count = 0
    /\ ret.pct = <<1, 1>>

\* C12: for a 200 response whose price strings are all numbers, the price is
\* usd_foil when the card is foil and usd_foil is present; otherwise usd when
\* usd is present; otherwise tix times the fixed multiplier when tix is
\* present; otherwise the card resolves to None, and nothing is raised.
AllParsable(prices) ==
    \A f \in {"usd", "usd_foil", "eur", "tix"} :
        prices[f] # << >> => Parsable(prices[f][1])

C12_PriceSelection ==
    (op = "fetch_scryfall_card" /\ arg[1].kind = "json"
        /\ AllParsable(arg[1].data.prices)) =>
        LET prices == arg[1].data.prices
            foil == arg[2]
            expected ==
                IF foil /\ prices.usd_foil # << >> THEN <<Float(prices.usd_foil[1])>>
                ELSE IF prices.usd # << >> THEN <<Float(prices.usd[1])>>
                ELSE IF prices.tix # << >> THEN <<Float(prices.tix[1]) * TixFactor>>
                ELSE << >>
        IN  /\ ret.status = "ok"
            /\ (expected = << >>) = (ret.value[1] = << >>)
            /\ expected # << >> => ret.value[1][1].price = expected[1]

\* Scenario C: usd absent, usd_foil "12.50", foil: 12.50.
C12_Witness ==
    /\ op = "fetch_scryfall_card"
    /\ arg[1].kind = "json"
    /\ arg[1].data.prices.usd = << >>
    /\ arg[1].data.prices.usd_foil = <<"12.50">>
    /\ arg[1].data.prices.tix = << >>
    /\ arg[2] = TRUE
    /\ ret.value[1] # << >>
    /\ ret.value[1][1].price = 1250

---------------------------------------------------------------------------
(* C13..C17: the price batch, under SpecBatch *)

\* The identity key of a card of the batch.
IdentityKey(card) == <<card.name, card.set_code, card.collector_number, card.foil>>

\* The lookups issued for the i-th card of the batch, in the order issued.
RequestsFor(i) == SelectSeq(lookup.requests, LAMBDA r : r.i = i)

\* The strategies that apply to a card, in the fallback order (a), (b), (c).
ApplicableUrls(card) ==
    (IF card.scryfall_id # "" THEN <<<<"cards", card.scryfall_id>>>> ELSE << >>)
    \o (IF card.set_code # "" /\ card.collector_number # ""
        THEN <<<<"cards", card.set_code, card.collector_number>>>> ELSE << >>)
    \o <<<<"cards/named", card.name, card.set_code>>>>

\* C13: the strategies are tried in the order by id, by set and number, by
\* name; the first lookup of a card is its first applicable strategy and,
\* when a lookup fails (network error, status other than 200, malformed body)
\* and a further strategy applies, that strategy is tried before the batch
\* reports the card as having no market price.
C13_FallbackAttempted ==
    lookup.pc = "done" =>
        \A i \in 1..Len(cards) :
            LET urls == ApplicableUrls(cards[i])
                reqs == RequestsFor(i)
            IN  /\ reqs # << >>
                /\ reqs[1].url = urls[1]
                /\ \A n \in 1..(Len(urls) - 1) :
                       (n <= Len(reqs) /\ reqs[n].kind \in FailureKinds) =>
                           (n + 1 <= Len(reqs) /\ reqs[n + 1].url = urls[n + 1])

\* C14: a failed lookup (network error, status other than 200, malformed
\* body, price that is not a number) raises nothing out of the batch, gives
\* no price for its card, and every card of the batch is still looked up:
\* the finished batch returns the prices of exactly the lookups that gave one.
C14_FailureDoesNotAbort ==
    /\ ret.status # "Exception"
    /\ lookup.pc = "done" =>
           /\ ret.status = "ok"
           /\ \A i \in 1..Len(cards) : RequestsFor(i) # << >>
           /\ \A k \in DOMAIN lookup.requests :
                  lookup.requests[k].kind \in FailureKinds => ~lookup.requests[k].priced
           /\ Len(ret.value[1])
                  = Cardinality({k \in DOMAIN lookup.requests : lookup.requests[k].priced})

\* The first lookup of a batch of two meets a network error; the second card
\* is looked up and priced.
C14_Witness ==
    /\ lookup.pc = "done"
    /\ Len(cards) = 2
    /\ Len(lookup.requests) = 2
    /\ lookup.requests[1].kind = "error"
    /\ lookup.requests[2].priced
    /\ Len(ret.value[1]) = 1

\* C15: within one batch no two lookups are issued for cards with the same
\* identity key (name, set_code, collector_number, foil).
C15_OneLookupPerIdentity ==
    lookup.pc # "idle" =>
        \A j, k \in DOMAIN lookup.requests :
            j # k => IdentityKey(cards[lookup.requests[j].i])
                         # IdentityKey(cards[lookup.requests[k].i])

C17_EveryIdentityHasAnEntry ==
    lookup.pc = "done" =>
        Len(ret.value[1]) >= Cardinality({IdentityKey(cards[i]) : i \in 1..Len(cards)})

---------------------------------------------------------------------------
(* C18..C20: the projection and the total price, under SpecProject *)

\* The cards of a deck, section by section: a commander deck is one section,
\* the commander first.
SectionsOfDeck(deck) ==
    IF IsCommanderDeck(deck) THEN <<<<deck.commander>> \o deck.cards>>
    ELSE <<deck.mainboard, deck.sideboard>>

\* The tables of a projected deck, section by section.
SectionsOfReport(deck, report) ==
    IF IsCommanderDeck(deck) THEN <<report.tables>>
    ELSE <<report.tables[1][2], report.tables[2][2]>>

\* The position of a category in the declared order of the enum.
CategoryIndex(category) ==
    CHOOSE k \in 1..Len(CardCategory) : CardCategory[k] = category

\* C18: the tables of every projected section follow the declared order of
\* CardCategory whatever the order of the cards, no table is empty, and a
\* category has a table exactly when the section has a card of it.
C18_CategoryOrder ==
    op = "to_table_format" =>
        LET deck == ret.deck[1]
            sections == SectionsOfDeck(deck)
            reports == SectionsOfReport(deck, ret.value[1])
        IN  \A s \in 1..Len(sections) :
                LET tables == reports[s]
                IN  /\ \A j \in 1..Len(tables) :
                           /\ tables[j][2] # << >>
                           /\ tables[j][1] \in
                                  {sections[s][k].category : k \in 1..Len(sections[s])}
                    /\ \A i, j \in 1..Len(tables) :
                           i < j => CategoryIndex(tables[i][1]) < CategoryIndex(tables[j][1])
                    /\ \A k \in 1..Len(sections[s]) :
                           \E j \in 1..Len(tables) : tables[j][1] = sections[s][k].category

\* A mainboard listing an artifact before a creature is projected with the
\* creature table first, and an empty sideboard has no table.
C18_Witness ==
    /\ op = "to_table_format"
    /\ ~IsCommanderDeck(ret.deck[1])
    /\ Len(ret.deck[1].mainboard) = 2
    /\ ret.deck[1].mainboard[1].category = "artifact"
    /\ ret.deck[1].mainboard[1].quantity = 2
    /\ ret.deck[1].mainboard[2].category = "creature"
    /\ Len(ret.value[1].tables[1][2]) = 2
    /\ ret.value[1].tables[1][2][1][1] = "creature"
    /\ ret.value[1].tables[1][2][2][1] = "artifact"
    /\ ret.value[1].tables[2][2] = << >>

\* The row a card is expected to be shown as: the price string is "N/A" when
\* the price is absent and amount and currency when it is known, 0 included.
ExpectedRow(card) ==
    [name |-> card.name, quantity |-> card.quantity,
     owned_display |-> IF card.owned THEN "Yes" ELSE "No",
     price_display |-> IF card.price = << >> THEN <<"N/A">>
                       ELSE <<card.price[1], card.price_currency>>]

\* The rows of the table of a category, none when there is no such table.
RowsOf(tables, category) ==
    UNION {{tables[j][2][r] : r \in 1..Len(tables[j][2])} :
              j \in {i \in 1..Len(tables) : tables[i][1] = category}}

\* C19: in every projected table the row of a card has the price string
\* "N/A" exactly when the card has no known price, and amount and currency
\* for every known price, a known price of 0 included.
C19_PriceString ==
    op = "to_table_format" =>
        LET deck == ret.deck[1]
            sections == SectionsOfDeck(deck)
            reports == SectionsOfReport(deck, ret.value[1])
        IN  \A s \in 1..Len(sections) :
                \A k \in 1..Len(sections[s]) :
                    ExpectedRow(sections[s][k])
                        \in RowsOf(reports[s], sections[s][k].category)

\* Sum of price * quantity over the cards of dcs at the positions I, an
\* absent price counting 0.
RECURSIVE SumPriceAt(_, _)
SumPriceAt(dcs, I) ==
    IF I = {} THEN 0
    ELSE LET i == CHOOSE x \in I : TRUE
         IN  (IF dcs[i].price = << >> THEN 0 ELSE dcs[i].price[1] * dcs[i].quantity)
             + SumPriceAt(dcs, I \ {i})

\* C20: the total_price of every deck the three builders return is the sum
\* of price * quantity over all its cards (the commander with quantity 1),
\* an absent price counting 0; a card without price never aborts a builder.
C20_TotalPrice ==
    /\ op \in {"create_commander_deck_from_scryfall",
                "create_standard_deck_from_scryfall"} => ret.status = "ok"
    /\ op = "create_commander_deck" =>
           ret.status = IF SumNeeded(deck_list, DOMAIN deck_list) = DeckSize
                        THEN "ok" ELSE "ValueError"
    /\ ret.deck # << >> =>
           LET deck == ret.deck[1]
               all == IF IsCommanderDeck(deck) THEN <<deck.commander>> \o deck.cards
                      ELSE deck.mainboard \o deck.sideboard
           IN  /\ deck.total_price = SumPriceAt(all, DOMAIN all)
               /\ IsCommanderDeck(deck) => deck.commander.quantity = 1

\* A commander deck from Scryfall cards: the commander priced 1.50, two
\* copies of a card without price, total 1.50.
C20_Witness ==
    /\ op = "create_commander_deck_from_scryfall"
    /\ ret.status = "ok"
    /\ ret.deck[1].commander.price = <<150>>
    /\ Len(ret.deck[1].cards) = 1
    /\ ret.deck[1].cards[1].price = << >>
    /\ ret.deck[1].cards[1].quantity = 2
    /\ ret.deck[1].total_price = 150

---------------------------------------------------------------------------
(* C21..C30 *)

\* The market price a price record holds in a currency (0 when it has none).
MarketPriceIn(price_info, c) ==
    IF c = "USD" THEN price_info.price
    ELSE IF price_info.eur_price = << >> THEN 0 ELSE price_info.eur_price[1]

\* Sum of market price * quantity, in currency c, over the rows at positions I.
RECURSIVE SumMarketAt(_, _, _, _)
SumMarketAt(cs, by_id, c, I) ==
    IF I = {} THEN 0
    ELSE LET i == CHOOSE x \in I : TRUE
         IN  MarketPriceIn(by_id[RowId(cs[i])], c) * cs[i].quantity
             + SumMarketAt(cs, by_id, c, I \ {i})

\* C21: purchase prices and market prices are never added into one total.
\* total_value sums purchase prices only; calculate_collection_market_value
\* sums market prices only, whatever was paid for the rows; the total_price of
\* a deck built by create_commander_deck sums card prices that are purchase
\* prices of collection rows; every entry of
\* get_most_valuable_cards_by_market_price carries the row's purchase price
\* and the looked-up market price as two separately labelled fields.
C21_SeparatePriceBases ==
    /\ op = "total_value" =>
           \A c \in DOMAIN ret.value[1] :
               ret.value[1][c] = SumValueAt(cards,
                   {i \in 1..Len(cards) : cards[i].purchase_price_currency = c})
    /\ op = "calculate_collection_market_value" =>
           LET by_id == card_prices(get_market_prices_for_cards(cards, arg[1]))
               priced == {i \in 1..Len(cards) : RowId(cards[i]) \in DOMAIN by_id}
           IN  \A c \in {"USD", "EUR"} :
                   IF c \in DOMAIN ret.value[1]
                   THEN ret.value[1][c] = SumMarketAt(cards, by_id, c, priced)
                   ELSE SumMarketAt(cards, by_id, c, priced) = 0
    /\ op = "get_most_valuable_cards_by_market_price" =>
           LET by_id == card_prices(get_market_prices_for_cards(cards, arg[1]))
               entries == ret.value[1]
           IN  \A e \in 1..Len(entries) :
                   /\ {"purchase_price", "purchase_currency", "market_price",
                       "market_price_currency"} \subseteq DOMAIN entries[e]
                   /\ \E i \in 1..Len(cards) :
                          /\ RowId(cards[i]) \in DOMAIN by_id
                          /\ entries[e].purchase_price = cards[i].purchase_price
                          /\ entries[e].purchase_currency = cards[i].purchase_price_currency
                          /\ entries[e].market_price = by_id[RowId(cards[i])].price
                          /\ entries[e].market_price_currency = "USD"
    /\ (op = "create_commander_deck" /\ ret.deck # << >>) =>
           LET deck == ret.deck[1]
               all == <<deck.commander>> \o deck.cards
           IN  /\ deck.total_price = SumPriceAt(all, DOMAIN all)
               /\ \A k \in DOMAIN all :
                      all[k].price # << >> =>
                          \E i \in 1..Len(cards) :
                              /\ Lower(cards[i].name) = Lower(all[k].name)
                              /\ cards[i].purchase_price = all[k].price[1]

\* Two copies bought at 2.50 each and priced at 1.50 on the market are worth
\* 3.00 on the market.
C21_Witness ==
    /\ op = "calculate_collection_market_value"
    /\ Len(cards) = 1
    /\ cards[1].purchase_price = 250
    /\ cards[1].quantity = 2
    /\ DOMAIN ret.value[1] = {"USD"}
    /\ ret.value[1]["USD"] = 300

\* A row the inventory must refuse: negative quantity, negative purchase price
\* or no currency.
InvalidCsvRow(row) ==
    \/ (IsInt(row.Quantity) /\ IntOf(row.Quantity) < 0)
    \/ row.Purchase_price = "-2.50"
    \/ row.Purchase_price_currency = ""

\* C22: loading fails when the row sequence is empty or a row has a negative
\* quantity, a negative purchase price or no currency; every row of a
\* collection that was loaded has quantity >= 1, purchase_price >= 0 and a
\* currency.
C22_LoadValidates ==
    op = "load_collection_from_csv" =>
        /\ (arg[1] = << >> \/ \E k \in DOMAIN arg[1] : InvalidCsvRow(arg[1][k]))
               => ret.status # "ok"
        /\ ret.status = "ok" =>
               \A i \in 1..Len(cards) :
                   /\ cards[i].quantity >= 1
                   /\ cards[i].purchase_price >= 0
                   /\ cards[i].purchase_price_currency # ""

\* The owned column of a report: per table, the name and the owned text of
\* each row.
OwnedColumn(tables) ==
    [k \in 1..Len(tables) |->
        <<tables[k][1],
          [j \in 1..Len(tables[k][2]) |->
              <<tables[k][2][j].name, tables[k][2][j].owned_display>>]>>]

\* C23: ownership is never stale.  Whatever rows were added to or removed
\* from the collection since the deck was built, the ownership_percentage and
\* the owned flags that to_table_format reports for the deck are those that
\* reconciling the same commander and list against the current collection
\* gives.
C23_NeverStale ==
    (op = "to_table_format" /\ ret.deck # << >>) =>
        LET deck == ret.deck[1]
            report == ret.value[1]
            current == create_commander_deck(cards, deck.commander.name, deck_list)
            now == CommanderDeck_to_table_format(current.deck[1])
        IN  /\ report.ownership_percentage = now.ownership_percentage
            /\ OwnedColumn(report.tables) = OwnedColumn(now.tables)

\* The cards a deck holds besides the commander.
PlacedCards(deck) ==
    IF IsCommanderDeck(deck) THEN deck.cards ELSE deck.mainboard \o deck.sideboard

\* Some row of the collection carries the name, ignoring letter case.
HasMatchingRow(cs, name) == \E i \in 1..Len(cs) : Lower(cs[i].name) = Lower(name)

RECURSIVE SumCountedAt(_, _, _)
SumCountedAt(cs, dcs, I) ==
    IF I = {} THEN 0
    ELSE LET i == CHOOSE x \in I : TRUE
         IN  Min(QuantityOwnedAnyCase(cs, dcs[i].name), dcs[i].quantity)
             + SumCountedAt(cs, dcs, I \ {i})

\* C25: the ownership_percentage of a deck built by
\* create_standard_deck_from_scryfall is 100 * (sum of min(quantity_owned,
\* quantity_needed) over the mainboard and sideboard cards) / (sum of the
\* quantities needed), to two places: a partially owned card contributes the
\* copies that are owned.
C25_StandardDeckPercentage ==
    (op = "create_standard_deck_from_scryfall" /\ ret.deck # << >>) =>
        LET dcs == PlacedCards(ret.deck[1])
            needed == SumCardQuantity(dcs)
        IN  needed > 0 =>
                ret.deck[1].ownership_percentage =
                    Round2(Frac(100 * SumCountedAt(cards, dcs, DOMAIN dcs), needed))

\* C26: for every list create_commander_deck accepts, the ownership_percentage
\* is 100 * (sum of min(quantity_owned, quantity_needed) over the placed cards
\* + the commander's contribution) / (sum of the quantities of the placed cards
\* + 1), to two places; it is 100 when the commander and every placed card are
\* owned in sufficient quantity, also when the list holds the commander's name.
C26_CommanderDeckPercentage ==
    (op = "create_commander_deck" /\ ret.status = "ok") =>
        LET deck == ret.deck[1]
            dcs == deck.cards
            counted == SumCountedAt(cards, dcs, DOMAIN dcs)
                       + (IF HasMatchingRow(cards, deck.commander.name) THEN 1 ELSE 0)
            needed == SumCardQuantity(dcs) + 1
        IN  /\ deck.ownership_percentage = Round2(Frac(100 * counted, needed))
            /\ (/\ HasMatchingRow(cards, deck.commander.name)
                /\ \A k \in DOMAIN dcs :
                       QuantityOwnedAnyCase(cards, dcs[k].name) >= dcs[k].quantity)
                   => deck.ownership_percentage = <<100, 1>>

\* C27: every CommanderDeck returned by create_commander_deck or
\* create_commander_deck_from_scryfall has the 1+99 shape: one commander of
\* quantity 1, the quantities of the remaining cards totalling 99 (total_cards
\* = 100), and the commander's name not among the remaining cards.
C27_CommanderDeckShape ==
    (op \in {"create_commander_deck", "create_commander_deck_from_scryfall"}
        /\ ret.deck # << >>) =>
        LET deck == ret.deck[1]
        IN  /\ deck.commander.quantity = 1
            /\ SumCardQuantity(deck.cards) = DeckSize
            /\ 1 + SumCardQuantity(deck.cards) = TotalDeckCards
            /\ \A k \in DOMAIN deck.cards :
                   Lower(deck.cards[k].name) # Lower(deck.commander.name)

\* C28: the total_price of a deck built by create_commander_deck sums prices
\* of one currency only, the one the deck reports as price_currency: it is the
\* sum of price * quantity over the cards (commander included) whose price is
\* in that currency, and a card priced in another currency adds nothing.
C28_OneCurrencyTotal ==
    (op = "create_commander_deck" /\ ret.status = "ok") =>
        LET deck == ret.deck[1]
            all == <<deck.commander>> \o deck.cards
        IN  /\ deck.price_currency = "USD"
            /\ deck.total_price =
                   SumPriceAt(all, {k \in DOMAIN all :
                                       all[k].price_currency = deck.price_currency})

\* The rows of a sequence of category tables, each with its category.
RECURSIVE CategoryRows(_)
CategoryRows(tables) ==
    IF tables = << >> THEN << >>
    ELSE [j \in 1..Len(tables[1][2]) |-> <<tables[1][1], tables[1][2][j]>>]
         \o CategoryRows(Tail(tables))

RECURSIVE SumRowQuantity(_)
SumRowQuantity(rows) ==
    IF rows = << >> THEN 0 ELSE rows[1][2].quantity + SumRowQuantity(Tail(rows))

\* The rows show the cards dcs, each card once and in the table of its
\* category: every (category, row) pair occurs as often among the rows as
\* among the cards.
ShowsEachCardOnce(rows, dcs) ==
    LET shown(k) == <<dcs[k].category, TableRow(dcs[k])>>
    IN  /\ Len(rows) = Len(dcs)
        /\ \A k \in DOMAIN dcs :
               Cardinality({j \in DOMAIN rows : rows[j] = shown(k)})
                   = Cardinality({i \in DOMAIN dcs : shown(i) = shown(k)})

\* C29: the projection loses and duplicates nothing.  In the report of a
\* commander deck every card has exactly one row, in the table of its category
\* (the commander in the "commander" table), there are 1 + len(cards) rows and
\* the row quantities sum to total_cards; in the report of a standard deck the
\* same holds of each section against its card_count.
C29_ProjectionComplete ==
    (op = "to_table_format" /\ ret.deck # << >>) =>
        LET deck == ret.deck[1]
            report == ret.value[1]
        IN  IF IsCommanderDeck(deck)
            THEN LET rows == CategoryRows(report.tables)
                 IN  /\ ShowsEachCardOnce(rows, <<deck.commander>> \o deck.cards)
                     /\ \E j \in DOMAIN rows :
                            rows[j] = <<"commander", TableRow(deck.commander)>>
                     /\ Len(rows) = 1 + Len(deck.cards)
                     /\ SumRowQuantity(rows) = CommanderDeck_total_cards(deck)
            ELSE LET main == CategoryRows(report.tables[1][2])
                     side == CategoryRows(report.tables[2][2])
                 IN  /\ report.tables[1][1] = "mainboard"
                     /\ report.tables[2][1] = "sideboard"
                     /\ ShowsEachCardOnce(main, deck.mainboard)
                     /\ ShowsEachCardOnce(side, deck.sideboard)
                     /\ SumRowQuantity(main) = report.card_count.mainboard
                     /\ SumRowQuantity(side) = report.card_count.sideboard
                     /\ SumRowQuantity(main) + SumRowQuantity(side)
                            = report.card_count.total

\* A commander deck of 1 + 99 whose two placed cards share a category.
C29_Witness ==
    /\ op = "to_table_format"
    /\ IsCommanderDeck(ret.deck[1])
    /\ Len(ret.deck[1].cards) = 2
    /\ ret.deck[1].cards[1].category = ret.deck[1].cards[2].category
    /\ CommanderDeck_total_cards(ret.deck[1]) = TotalDeckCards
    /\ Len(ret.value[1].tables) = 2
    /\ Len(ret.value[1].tables[2][2]) = 2

\* The rows whose own lookup returned a price.
PricedRows(cs, responses) ==
    {k \in 1..Len(cs) : fetch_scryfall_card(responses[k], cs[k].foil) # << >>}

\* Sum over the rows K of (the price the row's own lookup returned) * quantity.
RECURSIVE SumOwnPriceAt(_, _, _)
SumOwnPriceAt(cs, responses, K) ==
    IF K = {} THEN 0
    ELSE LET k == CHOOSE x \in K : TRUE
         IN  fetch_scryfall_card(responses[k], cs[k].foil)[1].price * cs[k].quantity
             + SumOwnPriceAt(cs, responses, K \ {k})

\* C30: every collection row whose lookup returned a price is included,
\* however the external record spells its name, set code and collector number:
\* its price * quantity is in the USD total of
\* calculate_collection_market_value, and it has an entry in the list of
\* get_most_valuable_cards_by_market_price unless limit cuts the list short.
C30_EveryPricedRowIncluded ==
    /\ op = "calculate_collection_market_value" =>
           LET priced == PricedRows(cards, arg[1])
               usd == IF "USD" \in DOMAIN ret.value[1] THEN ret.value[1]["USD"] ELSE 0
           IN  usd = SumOwnPriceAt(cards, arg[1], priced)
    /\ op = "get_most_valuable_cards_by_market_price" =>
           LET priced == PricedRows(cards, arg[1])
           IN  Len(ret.value[1]) = Min(arg[2], Cardinality(priced))

====
